---- MODULE Spec2Model ----
(***************************************************************************)
(* Galton board: the two variants of the ball simulation.                  *)
(*   Model A  src/unnamed/part_000      (kinematic tween, class Ball)      *)
(*   Model B  src/src/GaltonBoard.jsx   (gravity integration, class QBall) *)
(*                                                                         *)
(* Units.  Probabilities and the bias are in hundredths.  Times are in     *)
(* milliseconds and are kept relative to the timestamp of the most recent  *)
(* animation frame (a time t is stored as t - lastFrameTimestamp).         *)
(* Lengths are in tenths of a pixel, Model B speeds in tenths of a pixel   *)
(* per second, the scale of Model A in twentieths.  32-bit words are       *)
(* pairs <<high 16 bits, low 16 bits>>.  The horizontal position of a      *)
(* Model B ball and the eased (x, y) of a Model A ball are read by the     *)
(* drawing code only and are not modelled.                                 *)
(***************************************************************************)
EXTENDS Integers, Sequences, FiniteSets, Bags, TLC

VARIABLES
  variant,        \* "A" or "B": which source file is running
  rows,           \* useState(12): the Rows control
  bias,           \* useState(0): the bias control, in hundredths
  stepMs,         \* Model A: the speed control
  ballsPerBatch,  \* Model A: the batch size control
  seed,           \* Model A: the seed control
  running,        \* useState(false)
  ballsRef,       \* ballsRef.current: the live balls, in array order
  gens,           \* the generators made by mulberry32: state a of each
  rngRef,         \* rngRef.current: index into gens
  binTallies,     \* the tally array
  timers,         \* Model A: pending setTimeout(launchBall) callbacks (a bag of closures)
  handle,         \* the setInterval of the auto-run effect: its closure, or NoHandle
  last,           \* Model B: `last` of the animation effect, relative to the latest frame
  completed,      \* history: balls completed since the latest reset or rows change
  emitted,        \* history: the completions of the latest tick (see Landing)
  built,          \* history: <<seed, initial state>> of every generator constructed
  moves,          \* history: how many times a slider or the seed was changed
  launched,       \* history: how many balls were created
  scale,          \* Model A: useState(1), the size control, in twentieths
  quiet,          \* history: running went from true to false, and the user has
                  \* neither started nor dropped since
  frames,         \* the requestAnimationFrame requests neither run nor cancelled: their ids
  rafRef,         \* rafRef.current (Model B: rafId of the animation effect)
  cleared,        \* history: Reset was pressed while not running, and the user has
                  \* neither started nor dropped since
  runs            \* SpecDet: two runs of Model A given the same inputs

vars == <<variant, rows, bias, stepMs, ballsPerBatch, seed, running, ballsRef,
          gens, rngRef, binTallies, timers, handle, last, completed,
          emitted, built, moves, launched, scale, quiet, frames, rafRef, cleared, runs>>

(***************************************************************************)
(* Bounds of the model and the values the controls range over.             *)
(***************************************************************************)
MaxBalls == 2
MaxTimers == 2
MaxDrops == 2
MaxGens == 2
MaxMoves == 1
MaxFrames == 2

RowValuesA == {5, 7}
RowValuesB == {5, 19}
BiasValues == {0, 25}
StepMsValues == {60, 120}
BatchValues == {1, 2}
SeedValues == {12345, 0}
InitSeeds == {12345, 29}
RandomValues == {1, 7}
FrameGaps == {40, 80}

RowValues == IF variant = "A" THEN RowValuesA ELSE RowValuesB

NoHandle == [on |-> FALSE]

\* clamp helper
clamp(v, lo, hi) == IF (IF hi < v THEN hi ELSE v) < lo THEN lo ELSE (IF hi < v THEN hi ELSE v)

Min(a, b) == IF a < b THEN a ELSE b
Max(a, b) == IF a < b THEN b ELSE a

(***************************************************************************)
(* 32-bit integer arithmetic of the generator.                             *)
(***************************************************************************)
Word(a) == <<(a \div 65536) % 65536, a % 65536>>

Int32(w) == IF w[1] >= 32768 THEN (w[1] - 65536) * 65536 + w[2]
                             ELSE w[1] * 65536 + w[2]

Add32(x, y) == <<(x[1] + y[1] + ((x[2] + y[2]) \div 65536)) % 65536,
                 (x[2] + y[2]) % 65536>>

RECURSIVE BitXor(_, _)
BitXor(a, b) == IF a = 0 THEN b
                ELSE IF b = 0 THEN a
                ELSE ((a + b) % 2) + 2 * BitXor(a \div 2, b \div 2)

RECURSIVE BitOr(_, _)
BitOr(a, b) == IF a = 0 THEN b
               ELSE IF b = 0 THEN a
               ELSE Max(a % 2, b % 2) + 2 * BitOr(a \div 2, b \div 2)

Xor32(x, y) == <<BitXor(x[1], y[1]), BitXor(x[2], y[2])>>

Or32(x, y) == <<BitOr(x[1], y[1]), BitOr(x[2], y[2])>>

\* x >>> k for 0 < k < 16
Shr32(x, k) == <<x[1] \div (2 ^ k),
                 (x[2] \div (2 ^ k)) + (x[1] % (2 ^ k)) * (2 ^ (16 - k))>>

\* the 32-bit product of two 16-bit numbers
Mul16(a, b) ==
  Add32(Word((a % 256) * b), <<(((a \div 256) * b) \div 256) % 65536, (((a \div 256) * b) % 256) * 256>>)

\* Math.imul: the low 32 bits of the product
Imul32(x, y) ==
  Add32(Mul16(x[2], y[2]), <<(Mul16(x[1], y[2])[2] + Mul16(x[2], y[1])[2]) % 65536, 0>>)

(***************************************************************************)
(* mulberry32.  mulberry32(s, r) is the initial state `a` of the generator *)
(* built from seed s when Math.floor(Math.random() * 2 ** 31) would be r.  *)
(* rngNext(a) is one call of the returned function: the new state and the  *)
(* 32-bit numerator of the value returned (value = numerator / 2^32).      *)
(***************************************************************************)
mulberry32(s, r) == IF s # 0 THEN s ELSE r

\* a = (a + 0x6d2b79f5) | 0
rngState(a) == Int32(Add32(Word(a), Word(1831565813)))

\* Only({e : v \in {x}}) is e with v naming the value of x
Only(S) == CHOOSE r \in S : TRUE

\* t = Math.imul(a ^ (a >>> 15), 1 | a)
rngMix1(a) == Imul32(Xor32(a, Shr32(a, 15)), Or32(<<0, 1>>, a))

\* t = (t + Math.imul(t ^ (t >>> 7), 61 | t)) ^ t
rngMix2(t) == Xor32(Add32(t, Imul32(Xor32(t, Shr32(t, 7)), Or32(<<0, 61>>, t))), t)

\* (t ^ (t >>> 14)) >>> 0
rngOut(t) == Xor32(t, Shr32(t, 14))

\* the value computed from the new state a
rngValue(a) ==
  Only({rngOut(t2) : t2 \in {rngMix2(t1) : t1 \in {rngMix1(w) : w \in {Word(a)}}}})

\* the states the generators of the model can be in, and their values
\* (rngValue tabulated once over them)
RECURSIVE Orbit(_, _)
Orbit(a, n) ==
  IF n = 0 THEN {a} ELSE {a} \cup UNION {Orbit(b, n - 1) : b \in {rngState(a)}}

GenStates ==
  UNION {Orbit(a, MaxDrops * 20) : a \in InitSeeds \cup SeedValues \cup RandomValues}

ValueTable == [a \in GenStates |-> rngValue(a)]

valueAt(a) == IF a \in DOMAIN ValueTable THEN ValueTable[a] ELSE rngValue(a)

\* one call of the generator in state a: the new state and the value returned
draw(a1) == Only({[a |-> n, value |-> valueAt(n)] : n \in {a1}})

rngNext(a) == draw(rngState(a))

\* Ball and QBall take their rng as a constructor argument.  Besides the
\* generators of the heap g (rng = an index of g) a ball can be given one of
\* two constant functions: () => 0 and () => 1.
ZeroRng == 0 - 1
OneRng == 0 - 2

\* this.rng() / b.rng() for the ball's rng i: the draw, and the new state (of
\* g[i], when i is a generator of the heap)
rngCall(g, i) ==
  IF i \in DOMAIN g THEN rngNext(g[i])
  ELSE [a |-> 0, value |-> IF i = ZeroRng THEN <<0, 0>> ELSE <<65536, 0>>]

\* the heap after the ball's rng i has gone to state a
drawn(g, i, a) == IF i \in DOMAIN g THEN [g EXCEPT ![i] = a] ELSE g

\* 0.5 + bias without the clamp: what C15_PRightClamped must tell apart from
\* pRightOf
pRightRaw(b) == 50 + b

\* clamp(0.5 + bias, 0, 1), in hundredths
pRightOf(b) == clamp(50 + b, 0, 100)

\* rng() <= pRight: what C12_AllLeftLandsFirst must tell apart from Below
BelowEq(u, p) == u[1] * 100 + ((u[2] * 100) \div 65536) <= p * 65536

\* rng() < pRight, for a value u = numerator / 2^32 and pRight in hundredths
Below(u, p) == u[1] * 100 + ((u[2] * 100) \div 65536) < p * 65536


(***************************************************************************)
(* Model A: class Ball.  A closure c is what a launchBall of some render   *)
(* captured: c.rows, c.stepMs, c.bias.                                     *)
(***************************************************************************)
MaxStepMs == CHOOSE s \in StepMsValues : \A t \in StepMsValues : t <= s

Tenths(px) == px * 10

\* spacing = 28 * scale, in tenths of a pixel; sc is the scale in twentieths
spacingOf(sc) == 14 * sc

\* boardCenterX = width / 2, width = Math.round(520 * scale)
boardCenterXOf(sc) == Tenths(26 * sc) \div 2

\* new Ball({x0, ..., rows, spacing, stepMs, bias, rng}) at wall-clock time
\* perf, by the launchBall of a render with scale c.scale: x0 = boardCenterX.
\* x0 is kept as history (the code keeps it in this.x and this.tx only)
Ball(c, rng, perf) ==
  [col |-> 0, row |-> 0, rows |-> c.rows, spacing |-> spacingOf(c.scale),
   stepMs |-> Max(40, c.stepMs), bias |-> c.bias, rng |-> rng, done |-> FALSE,
   t0 |-> perf, x0 |-> boardCenterXOf(c.scale), tx |-> boardCenterXOf(c.scale),
   nRight |-> 0]

\* this.tx = clamp(this.tx, boardCenterX - maxOffset, boardCenterX + maxOffset)
\* with maxOffset = (this.rows * this.spacing) / 2 and boardCenterX the
\* width / 2 of the render whose tick is running
clampTarget(b, x) ==
  clamp(x, boardCenterXOf(scale) - (b.rows * b.spacing) \div 2,
           boardCenterXOf(scale) + (b.rows * b.spacing) \div 2)

\* const goRight = rng() < pRight ? 1 : -1, for the draw r
decide(r0, p) ==
  Only({[a |-> r.a, goRight |-> IF Below(r.value, p) THEN 1 ELSE -1] : r \in {r0}})

\* the else branch of Ball.planNextTarget once goRight is decided
planTowards(b, g, perf, d) ==
  Only({[ball |-> [b EXCEPT !.col = @ + dec.goRight,
                            !.row = @ + 1,
                            !.t0 = perf,
                            !.tx = clampTarget(b, @ + dec.goRight * (b.spacing \div 2)),
                            !.nRight = IF dec.goRight = 1 THEN @ + 1 ELSE @],
         gens |-> drawn(g, b.rng, dec.a)] : dec \in {d}})

\* a planNextTarget that decides with the bias of the control instead of the
\* ball's own: what C21_BiasFixedAtDrop must tell apart from planNextTarget
planWithControl(b, g, perf) ==
  IF b.row >= b.rows
    THEN [ball |-> [b EXCEPT !.done = TRUE], gens |-> g]
    ELSE planTowards(b, g, perf, decide(rngCall(g, b.rng), pRightOf(bias)))

\* Ball.planNextTarget, reading performance.now() = perf; g is the generator heap
planNextTarget(b, g, perf) ==
  IF b.row >= b.rows
    THEN [ball |-> [b EXCEPT !.done = TRUE], gens |-> g]
    ELSE planTowards(b, g, perf, decide(rngCall(g, b.rng), pRightOf(b.bias)))

\* Ball.update(now); b.t0 is relative to now, so now - t0 = -b.t0
update(b) ==
  IF b.done THEN b
  ELSE IF -b.t0 >= b.stepMs /\ b.row >= b.rows THEN [b EXCEPT !.done = TRUE]
  ELSE b

\* b.update(now) after the optional planNextTarget of one iteration
updated(p0) == Only({[ball |-> update(p.ball), gens |-> p.gens] : p \in {p0}})

\* an iteration that never calls planNextTarget: what C16_EveryBallCompletes
\* must tell apart from advanceOne
advanceIdle(b, g, j) == updated([ball |-> b, gens |-> g])

\* one iteration of "advance balls" in tick(now); j = performance.now() - now
advanceOne(b, g, j) ==
  updated(IF ~b.done /\ -b.t0 >= b.stepMs
            THEN planNextTarget(b, g, j)
            ELSE [ball |-> b, gens |-> g])

\* a replacement of the collection that leaves out the ball of the first
\* iteration: what C18_AppendsSurviveFrames must tell apart from advanced
advancedWithout(h, t0) == t0

\* the result h of the first iteration put before the result t of the others
advanced(h, t0) == Only({[balls |-> <<h.ball>> \o t.balls, gens |-> t.gens] : t \in {t0}})

\* ballsRef.current.forEach of "advance balls", in array order
RECURSIVE advance(_, _, _)
advanceAfter(h0, rest, j) == Only({advanced(h, advance(rest, h.gens, j)) : h \in {h0}})

advance(balls, g, j) ==
  IF balls = <<>> THEN [balls |-> <<>>, gens |-> g]
  ELSE advanceAfter(advanceOne(Head(balls), g, j), Tail(balls), j)

\* a time t relative to the previous frame, re-expressed relative to the
\* frame d later; differences beyond the longest stepMs are not distinguished
rebase(t, d) == Max(t - d, -MaxStepMs)

rebaseAll(balls, d) == [i \in DOMAIN balls |-> [balls[i] EXCEPT !.t0 = rebase(@, d)]]

\* Math.round(n / 2) for an integer n
RoundHalf(n) == (n + 1) \div 2

\* idxA without its clamp: what C5_BinRange must tell apart from idxA
idxNoClamp(b, rws) == RoundHalf(b.col + rws)

\* the bin index tick computes for a done ball, under the rows of its render
idxA(b, rws) == clamp(RoundHalf(b.col + rws), 0, rws)

\* an updater that writes 1 instead of adding 1: what C3_TallyConservation
\* must tell apart from bump
bumpSet(prev, idx) ==
  IF idx + 1 \in DOMAIN prev THEN [prev EXCEPT ![idx + 1] = 1] ELSE prev

\* the updater  prev => { next = prev.slice(); next[idx] += 1; return next }
bump(prev, idx) ==
  IF idx + 1 \in DOMAIN prev THEN [prev EXCEPT ![idx + 1] = @ + 1] ELSE prev

\* history record of one completion: the index given to setBinTallies, and the
\* row counter, rows and number of right decisions of the ball
Landing(idx, row, rws, rights) == [idx |-> idx, row |-> row, rows |-> rws, rights |-> rights]

\* a collection that tallies nothing and keeps every ball, the done ones too:
\* what C17_NoDoneBallLive must tell apart from collect
collectKeep(balls, tallies, rws) ==
  [tallies |-> tallies, still |-> balls, out |-> <<>>, gens |-> <<>>]

\* "collect done balls": tallies, the balls still falling, the completions
RECURSIVE collect(_, _, _)
collect(balls, tallies, rws) ==
  IF balls = <<>> THEN [tallies |-> tallies, still |-> <<>>, out |-> <<>>, gens |-> <<>>]
  ELSE LET b == Head(balls)
       IN IF b.done
            THEN LET idx == idxA(b, rws)
                     t == collect(Tail(balls), bump(tallies, idx), rws)
                 IN [t EXCEPT !.out = <<Landing(idx, b.row, b.rows, b.nRight)>> \o @]
            ELSE LET t == collect(Tail(balls), tallies, rws)
                 IN [t EXCEPT !.still = <<b>> \o @]

\* "advance balls" then "collect done balls" of one tick
collected(adv0, tallies, rws) ==
  Only({[collect(adv.balls, tallies, rws) EXCEPT !.gens = adv.gens] : adv \in {adv0}})

Zeros(n) == [i \in 1..n |-> 0]

RECURSIVE SumSeq(_)
SumSeq(s) == IF s = <<>> THEN 0 ELSE Head(s) + SumSeq(Tail(s))

totalBalls == SumSeq(binTallies)

binCount == rows + 1


(***************************************************************************)
(* Model B: class QBall and the ball loop of step(now).  A closure c is    *)
(* what launchBall captured: c.rows, c.pRight (c.rowYs follows from rows). *)
(***************************************************************************)
spacing == 28
topMargin == 40
bottomMargin == 160
baseHeight == 700
boardTop == topMargin + 20
boardBottom == baseHeight - bottomMargin
ballRadius10 == 32       \* ballRadius = 3.2, in tenths of a pixel
G == 1200
BOUNCE_VY == 120
FrameCapMs == 33         \* Math.min(0.033, ...), in milliseconds

\* x / k rounded to the nearest integer
Scale(x, k) == (2 * x + k) \div (2 * k)

\* rowYs[r] of a render: pegRows[r][0].y = boardTop + r * spacing
rowYs(r) == Tenths(boardTop + r * spacing)

\* new QBall({..., rows, pRight, rng, rowYs}); y0 = boardTop - spacing * 0.8
QBall(c, rng) ==
  [y |-> Tenths(boardTop) - spacing * 8, vy |-> 0, rows |-> c.rows,
   pRight |-> c.pRight, rng |-> rng, row |-> 0, rights |-> 0, done |-> FALSE]

\* b.vy += G * dt; b.vy *= AIR_DAMPING, in tenths of px/s, dt in ms
velocity(vy, dt) == Scale((vy + Scale(Tenths(G) * dt, 1000)) * 999, 1000)

\* b.y += b.vy * dt
moved(b, vy, dt) == [b EXCEPT !.vy = vy, !.y = @ + Scale(vy * dt, 1000)]

integrate(b, dt) == moved(b, velocity(b.vy, dt), dt)

\* the body of  if (b.row < b.rows && b.y >= b.rowYs[b.row])
deflect(b, g, d) ==
  Only({[ball |-> [b EXCEPT !.vy = -Tenths(BOUNCE_VY),
                            !.rights = IF dec.goRight > 0 THEN @ + 1 ELSE @,
                            !.row = @ + 1],
         gens |-> drawn(g, b.rng, dec.a)] : dec \in {d}})

crossing(b0, g) ==
  Only({IF b.row < b.rows /\ b.y >= rowYs(b.row)
          THEN deflect(b, g, decide(rngCall(g, b.rng), b.pRight))
          ELSE [ball |-> b, gens |-> g] : b \in {b0}})

\* if (b.y - b.r >= boardBottom) { b.done = true; setBinTallies(...) }
\* out = the bin index passed to setBinTallies, or -1 when none is
landing(p0, rws) ==
  Only({IF p.ball.y - ballRadius10 >= Tenths(boardBottom)
          THEN [ball |-> [p.ball EXCEPT !.done = TRUE], gens |-> p.gens,
                out |-> clamp(p.ball.rights, 0, rws)]
          ELSE [ball |-> p.ball, gens |-> p.gens, out |-> -1] : p \in {p0}})

\* the body of ballsRef.current.forEach in step, for one ball; dt in ms,
\* rws = the rows of the render that made this step
stepOne(b, g, dt, rws) ==
  IF b.done THEN [ball |-> b, gens |-> g, out |-> -1]
  ELSE landing(crossing(integrate(b, dt), g), rws)

\* the result h of the first ball put before the result t of the others;
\* the filter drops the done balls
stepped(h, t) ==
  [t EXCEPT !.still = IF h.ball.done THEN @ ELSE <<h.ball>> \o @,
            !.out = IF h.out >= 0
                      THEN <<Landing(h.out, h.ball.row, h.ball.rows, h.ball.rights)>> \o @
                      ELSE @]

\* ballsRef.current.forEach(...) of step, then the filter of the done balls
RECURSIVE stepAll(_, _, _, _, _)
stepAfter(h0, rest, tallies, dt, rws) ==
  Only({stepped(h, stepAll(rest, h.gens,
                           IF h.out >= 0 THEN bump(tallies, h.out) ELSE tallies, dt, rws))
        : h \in {h0}})

stepAll(balls, g, tallies, dt, rws) ==
  IF balls = <<>> THEN [still |-> <<>>, gens |-> g, tallies |-> tallies, out |-> <<>>]
  ELSE stepAfter(stepOne(Head(balls), g, dt, rws), Tail(balls), tallies, dt, rws)


(***************************************************************************)
(* The component: state after construction, and its handlers.              *)
(***************************************************************************)
Jitters == {0, 40}

\* the closure of launchBall in the current render
\* requestAnimationFrame ids.  An id is an opaque handle: one that no pending
\* request carries cannot be told from a new one, so the id returned is the
\* least such (the model holds at most MaxFrames requests)
FrameIds == 1..MaxFrames

freshFrame(fs) ==
  IF fs = FrameIds THEN MaxFrames
  ELSE CHOOSE i \in FrameIds \ fs : \A j \in FrameIds \ fs : i <= j

\* a cancellation that cancels nothing: what C19_OneFramePending must tell
\* apart from cancelAnimationFrame
cancelNothing(fs, id) == fs

\* cancelAnimationFrame(id) with the requests fs pending
cancelAnimationFrame(fs, id) == fs \ {id}

\* rafRef.current = requestAnimationFrame(tick) / rafId = requestAnimationFrame(step)
\* with the requests fs pending
requested(fs) == [frames |-> fs \cup {freshFrame(fs)}, current |-> freshFrame(fs)]

\* the requests pending and the id held, as requested returns them
raf == [frames |-> frames, current |-> rafRef.current]

\* the browser runs the frame callback of request id; its last statement
\* requests the next frame
callback(fs, id) == requested(fs \ {id})

\* the animation effect runs again after a render that changed one of its
\* dependencies: the cleanup of the previous run, then the body
animationEffect(r) == requested(cancelAnimationFrame(r.frames, r.current))

\* the requests pending and the id held after a handler
loop(r) ==
  /\ frames' = r.frames
  /\ rafRef' = [current |-> r.current]

closureA == [rows |-> rows, stepMs |-> stepMs, bias |-> bias, scale |-> scale]
closureB == [rows |-> rows, pRight |-> pRightOf(bias)]

\* room for one more ball within the bounds of the model
CanLaunch == Len(ballsRef) < MaxBalls /\ launched < MaxDrops

\* launchBatch(n) of a render whose launchBall is c: n setTimeout(launchBall)
launchBatch(tm, c, n) == tm (+) [x \in {c} |-> n]

\* the auto-run effect of Model A, run in a render with launchBall closure c,
\* batch size n and running = run, after the cleanup of the previous one
autoRunA(tm, run, c, n) ==
  IF run THEN [timers |-> launchBatch(tm, c, n), handle |-> [on |-> TRUE, c |-> c, n |-> n]]
         ELSE [timers |-> tm, handle |-> NoHandle]

\* a run of SpecDet before its first drop: no ball, the generator of the seed,
\* no bin index emitted
newRun(sd) == [balls |-> <<>>, gens |-> <<mulberry32(sd, 0)>>, out |-> <<>>]

\* the component after the user has chosen rows (and, in Model A, a seed),
\* before any drop
Init ==
  /\ variant \in {"A", "B"}
  /\ rows \in RowValues
  /\ bias = 0
  /\ stepMs = 60
  /\ ballsPerBatch = 1
  /\ seed \in (IF variant = "A" THEN InitSeeds ELSE {12345})
  /\ running = FALSE
  /\ ballsRef = <<>>
  /\ gens = <<mulberry32(seed, 0)>>
  /\ rngRef = 1
  /\ binTallies = Zeros(rows + 1)
  /\ timers = EmptyBag
  /\ handle = NoHandle
  /\ last = 0
  /\ completed = 0
  /\ emitted = <<>>
  /\ built = {<<seed, mulberry32(seed, 0)>>}
  /\ moves = 0
  /\ launched = 0
  /\ scale = 20
  /\ quiet = FALSE
  /\ cleared = FALSE
  /\ frames = requested({}).frames
  /\ rafRef = [current |-> requested({}).current]
  /\ runs = <<newRun(seed), newRun(seed)>>

\* what one frame leaves behind: f.still, f.gens, f.tallies, and in the history
\* f.out
frame(f0) ==
  \E f \in {f0} :
    /\ ballsRef' = f.still
    /\ gens' = f.gens
    /\ binTallies' = f.tallies
    /\ emitted' = f.out
    /\ completed' = completed + Len(f.out)

---------------------------------------------------------------------------
\* Model A

\* a pending setTimeout(launchBall) fires
launchBall ==
  /\ variant = "A"
  /\ CanLaunch
  /\ \E c \in BagToSet(timers) :
       /\ ballsRef' = Append(ballsRef, Ball(c, rngRef, 0))
       /\ timers' = timers (-) SetToBag({c})
  /\ launched' = launched + 1
  /\ emitted' = <<>>
  /\ UNCHANGED <<frames, rafRef, cleared, scale, quiet, runs, variant, rows, bias, stepMs, ballsPerBatch, seed, running,
                 gens, rngRef, binTallies, handle, last, completed, built, moves>>

\* the "Drop n" button: launchBatch(ballsPerBatch)
DropBatch ==
  /\ variant = "A"
  /\ BagCardinality(timers) + ballsPerBatch <= MaxTimers
  /\ timers' = launchBatch(timers, closureA, ballsPerBatch)
  /\ emitted' = <<>>
  /\ quiet' = FALSE
  /\ cleared' = FALSE
  /\ UNCHANGED <<frames, rafRef, scale, runs, variant, rows, bias, stepMs, ballsPerBatch, seed, running, ballsRef,
                 gens, rngRef, binTallies, handle, last, completed, built, moves, launched>>

\* the setInterval callback of the auto-run effect: launchBatch(ballsPerBatch)
IntervalBatch ==
  /\ variant = "A"
  /\ handle.on
  /\ BagCardinality(timers) + handle.n <= MaxTimers
  /\ timers' = launchBatch(timers, handle.c, handle.n)
  /\ emitted' = <<>>
  /\ UNCHANGED <<frames, rafRef, cleared, scale, quiet, runs, variant, rows, bias, stepMs, ballsPerBatch, seed, running, ballsRef,
                 gens, rngRef, binTallies, handle, last, completed, built, moves, launched>>

\* the Start/Stop button, and the auto-run effect that follows the render
ToggleRunningA ==
  /\ variant = "A"
  /\ LET e == autoRunA(timers, ~running, closureA, ballsPerBatch)
     IN /\ BagCardinality(e.timers) <= MaxTimers
        /\ timers' = e.timers
        /\ handle' = e.handle
  /\ running' = ~running
  /\ emitted' = <<>>
  /\ quiet' = running
  /\ cleared' = FALSE
  /\ UNCHANGED <<frames, rafRef, scale, runs, variant, rows, bias, stepMs, ballsPerBatch, seed, ballsRef,
                 gens, rngRef, binTallies, last, completed, built, moves, launched>>

\* reset() of Model A
resetA ==
  /\ variant = "A"
  /\ ballsRef' = <<>>
  /\ binTallies' = Zeros(binCount)
  /\ completed' = 0
  /\ emitted' = <<>>
  /\ cleared' = ~running
  /\ loop(IF totalBalls # 0 THEN animationEffect(raf) ELSE raf)
  /\ UNCHANGED <<scale, quiet, runs, variant, rows, bias, stepMs, ballsPerBatch, seed, running,
                 gens, rngRef, timers, handle, last, built, moves, launched>>

\* the Rows slider: setRows, then the binCount effect and the auto-run effect
SetRowsA ==
  /\ variant = "A"
  /\ moves < MaxMoves
  /\ moves' = moves + 1
  /\ \E r \in RowValues \ {rows} :
       LET e == autoRunA(timers, running, [closureA EXCEPT !.rows = r], ballsPerBatch)
       IN /\ BagCardinality(e.timers) <= MaxTimers
          /\ rows' = r
          /\ binTallies' = Zeros(r + 1)
          /\ timers' = e.timers
          /\ handle' = e.handle
  /\ completed' = 0
  /\ emitted' = <<>>
  /\ loop(animationEffect(raf))
  /\ UNCHANGED <<cleared, scale, quiet, runs, variant, bias, stepMs, ballsPerBatch, seed, running, ballsRef,
                 gens, rngRef, last, built, launched>>

\* the bias slider: no effect depends on bias
SetBiasA ==
  /\ variant = "A"
  /\ moves < MaxMoves
  /\ moves' = moves + 1
  /\ \E b \in BiasValues \ {bias} : bias' = b
  /\ emitted' = <<>>
  /\ UNCHANGED <<frames, rafRef, cleared, scale, quiet, runs, variant, rows, stepMs, ballsPerBatch, seed, running, ballsRef,
                 gens, rngRef, binTallies, timers, handle, last, completed, built, launched>>

\* the speed slider, then the auto-run effect
SetStepMs ==
  /\ variant = "A"
  /\ moves < MaxMoves
  /\ moves' = moves + 1
  /\ \E s \in StepMsValues \ {stepMs} :
       LET e == autoRunA(timers, running, [closureA EXCEPT !.stepMs = s], ballsPerBatch)
       IN /\ BagCardinality(e.timers) <= MaxTimers
          /\ stepMs' = s
          /\ timers' = e.timers
          /\ handle' = e.handle
  /\ emitted' = <<>>
  /\ UNCHANGED <<frames, rafRef, cleared, scale, quiet, runs, variant, rows, bias, ballsPerBatch, seed, running, ballsRef,
                 gens, rngRef, binTallies, last, completed, built, launched>>

\* the batch size slider, then the auto-run effect
SetBallsPerBatch ==
  /\ variant = "A"
  /\ moves < MaxMoves
  /\ moves' = moves + 1
  /\ \E n \in BatchValues \ {ballsPerBatch} :
       LET e == autoRunA(timers, running, closureA, n)
       IN /\ BagCardinality(e.timers) <= MaxTimers
          /\ ballsPerBatch' = n
          /\ timers' = e.timers
          /\ handle' = e.handle
  /\ emitted' = <<>>
  /\ UNCHANGED <<frames, rafRef, cleared, scale, quiet, runs, variant, rows, bias, stepMs, seed, running, ballsRef,
                 gens, rngRef, binTallies, last, completed, built, launched>>

\* the seed input or Randomize: the render evaluates useRef(mulberry32(seed))
\* (Math.random giving r1 if asked) and the effect installs mulberry32(seed)
\* (Math.random giving r2 if asked)
SetSeed ==
  /\ variant = "A"
  /\ moves < MaxMoves
  /\ moves' = moves + 1
  /\ Len(gens) < MaxGens
  /\ \E s \in SeedValues \ {seed} : \E r1, r2 \in RandomValues :
       /\ seed' = s
       /\ gens' = Append(gens, mulberry32(s, r2))
       /\ built' = built \cup {<<s, mulberry32(s, r1)>>, <<s, mulberry32(s, r2)>>}
  /\ rngRef' = Len(gens) + 1
  /\ emitted' = <<>>
  /\ UNCHANGED <<frames, rafRef, cleared, scale, quiet, runs, variant, rows, bias, stepMs, ballsPerBatch, running, ballsRef,
                 binTallies, timers, handle, last, completed, launched>>

\* tick(now) of Model A: the frame comes d after the previous one; the callback
\* reads performance.now() = now (SpecDet is about a later reading)
tick ==
  /\ variant = "A"
  /\ \E d \in FrameGaps : frame(collected(advance(rebaseAll(ballsRef, d), gens, 0), binTallies, rows))
  /\ \E id \in frames :
       loop(IF SumSeq(binTallies') # totalBalls THEN animationEffect(callback(frames, id))
                                                ELSE callback(frames, id))
  /\ UNCHANGED <<cleared, scale, quiet, runs, variant, rows, bias, stepMs, ballsPerBatch, seed, running,
                 rngRef, timers, handle, last, built, moves, launched>>

---------------------------------------------------------------------------
\* Model B

\* launchBall() of the current render: the "Drop 1" button
launchBallB ==
  /\ variant = "B"
  /\ CanLaunch
  /\ ballsRef' = Append(ballsRef, QBall(closureB, rngRef))
  /\ launched' = launched + 1
  /\ emitted' = <<>>
  /\ quiet' = FALSE
  /\ cleared' = FALSE
  /\ UNCHANGED <<frames, rafRef, scale, runs, variant, rows, bias, stepMs, ballsPerBatch, seed, running,
                 gens, rngRef, binTallies, timers, handle, last, completed, built, moves>>

\* the setInterval(launchBall) callback of the auto-run effect
IntervalBall ==
  /\ variant = "B"
  /\ handle.on
  /\ CanLaunch
  /\ ballsRef' = Append(ballsRef, QBall(handle.c, rngRef))
  /\ launched' = launched + 1
  /\ emitted' = <<>>
  /\ UNCHANGED <<frames, rafRef, cleared, scale, quiet, runs, variant, rows, bias, stepMs, ballsPerBatch, seed, running,
                 gens, rngRef, binTallies, timers, handle, last, completed, built, moves>>

\* the Start/Stop button and the auto-run effect: launchBall() and setInterval
ToggleRunningB ==
  /\ variant = "B"
  /\ running' = ~running
  /\ IF ~running
       THEN /\ CanLaunch
            /\ ballsRef' = Append(ballsRef, QBall(closureB, rngRef))
            /\ handle' = [on |-> TRUE, c |-> closureB]
       ELSE /\ ballsRef' = ballsRef
            /\ handle' = NoHandle
  /\ launched' = IF ~running THEN launched + 1 ELSE launched
  /\ emitted' = <<>>
  /\ quiet' = running
  /\ cleared' = FALSE
  /\ UNCHANGED <<frames, rafRef, scale, runs, variant, rows, bias, stepMs, ballsPerBatch, seed,
                 gens, rngRef, binTallies, timers, last, completed, built, moves>>

\* reset() of Model B
resetB ==
  /\ variant = "B"
  /\ ballsRef' = <<>>
  /\ binTallies' = Zeros(binCount)
  /\ completed' = 0
  /\ emitted' = <<>>
  /\ cleared' = ~running
  /\ UNCHANGED <<frames, rafRef, scale, quiet, runs, variant, rows, bias, stepMs, ballsPerBatch, seed, running,
                 gens, rngRef, timers, handle, last, built, moves, launched>>

\* the Rows slider: setRunning(false); setRows; then the effects on [rows]
\* (balls and tallies cleared) and the animation effect, which reads
\* last = performance.now(), w after the latest frame
SetRowsB ==
  /\ variant = "B"
  /\ moves < MaxMoves
  /\ moves' = moves + 1
  /\ \E r \in RowValues \ {rows} :
       /\ rows' = r
       /\ binTallies' = Zeros(r + 1)
  /\ running' = FALSE
  /\ handle' = NoHandle
  /\ ballsRef' = <<>>
  /\ \E w \in Jitters : last' = w
  /\ completed' = 0
  /\ emitted' = <<>>
  /\ quiet' = (running \/ quiet)
  /\ loop(animationEffect(raf))
  /\ UNCHANGED <<cleared, scale, runs, variant, bias, stepMs, ballsPerBatch, seed, gens, rngRef, timers, built, launched>>

\* the probability slider: setRunning(false); setBias
SetBiasB ==
  /\ variant = "B"
  /\ moves < MaxMoves
  /\ moves' = moves + 1
  /\ \E b \in BiasValues \ {bias} : bias' = b
  /\ running' = FALSE
  /\ handle' = NoHandle
  /\ emitted' = <<>>
  /\ quiet' = (running \/ quiet)
  /\ UNCHANGED <<frames, rafRef, cleared, scale, runs, variant, rows, stepMs, ballsPerBatch, seed, ballsRef, gens, rngRef,
                 binTallies, timers, last, completed, built, launched>>

\* the drop interval slider: setRunning(false); setDropIntervalMs (the interval
\* itself has no part in the model: IntervalBall fires at any time)
SetDropIntervalMs ==
  /\ variant = "B"
  /\ moves < MaxMoves
  /\ moves' = moves + 1
  /\ running' = FALSE
  /\ handle' = NoHandle
  /\ emitted' = <<>>
  /\ quiet' = (running \/ quiet)
  /\ UNCHANGED <<frames, rafRef, cleared, scale, runs, variant, rows, bias, stepMs, ballsPerBatch, seed, ballsRef, gens,
                 rngRef, binTallies, timers, last, completed, built, launched>>

\* step(now) of Model B: the frame comes d after the previous one
step ==
  /\ variant = "B"
  /\ \E d \in FrameGaps :
       /\ d >= last
       /\ frame(stepAll(ballsRef, gens, binTallies, Min(FrameCapMs, d - last), rows))
  /\ last' = 0
  /\ \E id \in frames : loop(callback(frames, id))
  /\ UNCHANGED <<cleared, scale, quiet, runs, variant, rows, bias, stepMs, ballsPerBatch, seed, running,
                 rngRef, timers, handle, built, moves, launched>>

Next ==
  \/ launchBall
  \/ DropBatch
  \/ IntervalBatch
  \/ ToggleRunningA
  \/ resetA
  \/ SetRowsA
  \/ SetBiasA
  \/ SetStepMs
  \/ SetBallsPerBatch
  \/ SetSeed
  \/ tick
  \/ launchBallB
  \/ IntervalBall
  \/ ToggleRunningB
  \/ resetB
  \/ SetRowsB
  \/ SetBiasB
  \/ SetDropIntervalMs
  \/ step

Spec == Init /\ [][Next]_vars

---------------------------------------------------------------------------
\* SpecDet: two runs of Model A side by side.  Both get the same seed, the same
\* controls, every drop at the same instant and every frame with the same
\* timestamp; what each run's tick reads from performance.now() is its own.

\* the latest reading of the clock a frame callback can make, after its timestamp
LatestReading == CHOOSE j \in Jitters : \A k \in Jitters : k <= j

\* the bin indices of the completions of one tick
indices(out) == [i \in DOMAIN out |-> out[i].idx]

\* the run r after a frame that leaves f behind
ranFrame(r, f) == [balls |-> f.still, gens |-> f.gens, out |-> r.out \o indices(f.out)]

\* tick(now) in the run r: the frame comes d after the previous one and
\* the callback reads performance.now() = now + j
tickRun(r, d, j) ==
  ranFrame(r, collected(advance(rebaseAll(r.balls, d), r.gens, j), Zeros(binCount), rows))

InitDet ==
  /\ Init
  /\ variant = "A"
  /\ seed = 12345

\* launchBall() in both runs, after the latest frame's callbacks have returned
DetDrop ==
  /\ Len(runs[1].balls) + Len(runs[1].out) < MaxDrops
  /\ runs' = [k \in 1..2 |->
                [runs[k] EXCEPT !.balls = Append(@, Ball(closureA, 1, LatestReading))]]
  /\ UNCHANGED <<frames, rafRef, cleared, scale, variant, rows, bias, stepMs, ballsPerBatch, seed, running, ballsRef,
                 gens, rngRef, binTallies, timers, handle, last, completed,
                 emitted, built, moves, launched, quiet>>

\* one frame, delivered to both runs with the same timestamp
DetTick ==
  /\ \E d \in FrameGaps : \E j1, j2 \in Jitters :
       /\ d >= LatestReading
       /\ runs' = <<tickRun(runs[1], d, j1), tickRun(runs[2], d, j2)>>
  /\ UNCHANGED <<frames, rafRef, cleared, scale, variant, rows, bias, stepMs, ballsPerBatch, seed, running, ballsRef,
                 gens, rngRef, binTallies, timers, handle, last, completed,
                 emitted, built, moves, launched, quiet>>

NextDet ==
  \/ DetDrop
  \/ DetTick

SpecDet == InitDet /\ [][NextDet]_vars

---------------------------------------------------------------------------
\* Geometry of the board (the useMemo values pegRows and binCenters), in tenths
\* of a pixel; sc is the scale in twentieths (Model B: scale 1).

ScaleValues == 14..32
ScenarioRows == 5..20

\* boardTop = topMargin + 20 * scale, topMargin = 40 * scale
boardTopOf(sc) == 20 * sc + 10 * sc

\* a row that starts a whole rowWidth left of the centre: what C14_PegGeometry
\* must tell apart from pegRowOf
pegRowLeft(r, sc) ==
  [i \in 1..(r + 1) |->
     [x |-> boardCenterXOf(sc) - r * spacingOf(sc) + (i - 1) * spacingOf(sc),
      y |-> boardTopOf(sc) + r * spacingOf(sc)]]

\* pegs of row r: y = boardTop + r * spacing, count = r + 1,
\* rowWidth = (count - 1) * spacing, startX = boardCenterX - rowWidth / 2
pegRowOf(r, sc) ==
  [i \in 1..(r + 1) |->
     [x |-> boardCenterXOf(sc) - (r * spacingOf(sc)) \div 2 + (i - 1) * spacingOf(sc),
      y |-> boardTopOf(sc) + r * spacingOf(sc)]]

\* pegRows: row r of the code is entry r + 1
pegRowsOf(rws, sc) == [k \in 1..rws |-> pegRowOf(k - 1, sc)]

\* bin centers laid over the bottom peg row, rowWidth = (rows - 1) * spacing:
\* what C13_BinGeometry must tell apart from binCentersOf
binCentersNarrow(rws, sc) ==
  [k \in 1..(rws + 1) |->
     boardCenterXOf(sc) - ((rws - 1) * spacingOf(sc)) \div 2 + (k - 1) * spacingOf(sc)]

\* binCenters: rowWidth = rows * spacing, startX = boardCenterX - rowWidth / 2,
\* centers[i] = startX + i * spacing for i < binCount; entry i + 1 here
binCentersOf(rws, sc) ==
  [k \in 1..(rws + 1) |->
     boardCenterXOf(sc) - (rws * spacingOf(sc)) \div 2 + (k - 1) * spacingOf(sc)]

\* the memoised values of the current render
pegRows == pegRowsOf(rows, scale)
binCenters == binCentersOf(rows, scale)

\* SpecGeom: the board for every rows and scale of the sliders.
InitGeom ==
  /\ variant \in {"A", "B"}
  /\ rows \in ScenarioRows
  /\ bias = 0
  /\ stepMs = 60
  /\ ballsPerBatch = 1
  /\ seed = 12345
  /\ running = FALSE
  /\ ballsRef = <<>>
  /\ gens = <<mulberry32(seed, 0)>>
  /\ rngRef = 1
  /\ binTallies = Zeros(rows + 1)
  /\ timers = EmptyBag
  /\ handle = NoHandle
  /\ last = 0
  /\ completed = 0
  /\ emitted = <<>>
  /\ built = {<<seed, mulberry32(seed, 0)>>}
  /\ moves = 0
  /\ launched = 0
  /\ scale \in (IF variant = "A" THEN ScaleValues ELSE {20})
  /\ quiet = FALSE
  /\ cleared = FALSE
  /\ frames = requested({}).frames
  /\ rafRef = [current |-> requested({}).current]
  /\ runs = <<newRun(seed), newRun(seed)>>

\* the Size / Scale slider of Model A
SetScale ==
  /\ variant = "A"
  /\ moves < MaxMoves
  /\ moves' = moves + 1
  /\ \E sc \in ScaleValues \ {scale} : scale' = sc
  /\ emitted' = <<>>
  /\ loop(animationEffect(raf))
  /\ UNCHANGED <<cleared, quiet, runs, variant, rows, bias, stepMs, ballsPerBatch, seed, running,
                 ballsRef, gens, rngRef, binTallies, timers, handle, last, completed,
                 built, launched>>

NextGeom ==
  \/ SetScale
  \/ SetRowsA
  \/ SetRowsB

SpecGeom == InitGeom /\ [][NextGeom]_vars

---------------------------------------------------------------------------
\* SpecStub: one ball on a board whose rngRef holds a constant function, for
\* every rows of the slider and also for a bias beyond the slider's range.

ScenarioBiases == {0 - 75, 0 - 50, 0 - 25, 0, 25, 50, 75}

InitStub ==
  /\ variant \in {"A", "B"}
  /\ rows \in ScenarioRows
  /\ bias \in ScenarioBiases
  /\ stepMs = 60
  /\ ballsPerBatch = 1
  /\ seed = 12345
  /\ running = FALSE
  /\ ballsRef = <<>>
  /\ gens = <<mulberry32(seed, 0)>>
  /\ rngRef \in {ZeroRng, OneRng}
  /\ binTallies = Zeros(rows + 1)
  /\ timers = EmptyBag
  /\ handle = NoHandle
  /\ last = 0
  /\ completed = 0
  /\ emitted = <<>>
  /\ built = {<<seed, mulberry32(seed, 0)>>}
  /\ moves = 0
  /\ launched = 0
  /\ scale = 20
  /\ quiet = FALSE
  /\ cleared = FALSE
  /\ frames = requested({}).frames
  /\ rafRef = [current |-> requested({}).current]
  /\ runs = <<newRun(seed), newRun(seed)>>

\* launchBall() of the current render, once
StubDrop ==
  /\ launched = 0
  /\ ballsRef' = Append(ballsRef, IF variant = "A" THEN Ball(closureA, rngRef, 0)
                                                   ELSE QBall(closureB, rngRef))
  /\ launched' = launched + 1
  /\ emitted' = <<>>
  /\ UNCHANGED <<frames, rafRef, cleared, scale, quiet, runs, variant, rows, bias, stepMs, ballsPerBatch, seed, running,
                 gens, rngRef, binTallies, timers, handle, last, completed, built, moves>>

NextStub ==
  \/ StubDrop
  \/ tick
  \/ step

SpecStub == InitStub /\ [][NextStub]_vars

---------------------------------------------------------------------------
\* SpecLive: drops and frames only (no reset, no change of a control), for every
\* rows of the slider.  requestAnimationFrame runs the frame callback again and
\* again, each time with a later timestamp: weak fairness of tick and step.

InitLive ==
  /\ InitGeom
  /\ scale = 20

NextLive ==
  \/ DropBatch
  \/ launchBall
  \/ tick
  \/ launchBallB
  \/ step

SpecLive == InitLive /\ [][NextLive]_vars /\ WF_vars(tick) /\ WF_vars(step)

---------------------------------------------------------------------------
\* Properties

\* C1: a ball is marked done only when its row counter equals its rows, so no
\* ball completes and is tallied having decided at fewer than rows peg rows
C1_DoneOnlyAtLastRow ==
  \A i \in DOMAIN emitted : emitted[i].row = emitted[i].rows

\* C2: no ball whose own rows differs from the current rows is live: a reset or
\* a rows change leaves no ball of the previous configuration, and no callback
\* scheduled before the change creates one later
C2_NoStaleBall ==
  \A i \in DOMAIN ballsRef : ballsRef[i].rows = rows

\* how many of the completions in out went to bin k
Count(out, k) == Cardinality({i \in DOMAIN out : out[i].idx = k})

\* C3: the tallies always sum to the number of balls completed since the latest
\* reset or rows change, and a frame adds to each bin exactly the number of
\* balls it completed into that bin, every completion going to a bin of the array
C3_TallyConservation ==
  /\ [](totalBalls = completed)
  /\ [][emitted' # <<>> =>
          /\ \A i \in DOMAIN emitted' : emitted'[i].idx + 1 \in DOMAIN binTallies
          /\ \A k \in DOMAIN binTallies :
               binTallies'[k] = binTallies[k] + Count(emitted', k - 1)]_vars

\* two balls have been tallied in the same bin
C3_TwoInOneBin == \E k \in DOMAIN binTallies : binTallies[k] = 2

\* C4: the bin index a completed ball is tallied at is the number of right
\* decisions the ball made
C4_IndexIsRightCount ==
  \A i \in DOMAIN emitted : emitted[i].idx = emitted[i].rights

\* C5: every bin index used to increment the tallies lies in 0..rows for the
\* current rows, inside the tally array of length rows + 1
C5_BinRange ==
  /\ Len(binTallies) = rows + 1
  /\ \A i \in DOMAIN emitted :
       /\ 0 <= emitted[i].idx
       /\ emitted[i].idx <= rows
       /\ emitted[i].idx + 1 \in DOMAIN binTallies

\* a ball completes with more right decisions than the current rows, and is
\* tallied in the last bin
C5_ClampedLanding ==
  \E i \in DOMAIN emitted : emitted[i].rights > rows /\ emitted[i].idx = rows

\* rightCount of a live ball: (col + row) / 2 in Model A, rights in Model B
rightCount(b) == IF variant = "A" THEN (b.col + b.row) \div 2 ELSE b.rights

\* C6: every live ball has 0 <= rightCount <= row <= rows, for the current rows
C6_RowInvariant ==
  \A i \in DOMAIN ballsRef :
    /\ 0 <= rightCount(ballsRef[i])
    /\ rightCount(ballsRef[i]) <= ballsRef[i].row
    /\ ballsRef[i].row <= rows

\* s and t have the same element wherever both have one
Agree(s, t) == \A i \in DOMAIN s \cap DOMAIN t : s[i] = t[i]

\* C7: two runs with the same seed, bias, drops and tick timestamps emit the
\* same sequence of bin indices (under SpecDet)
C7_SameBins == Agree(runs[1].out, runs[2].out)

\* C8: constructing the generator twice with the same seed gives the same
\* initial state, for every seed the seed control delivers
C8_SeedDeterminesState ==
  \A p, q \in built : p[1] = q[1] => p[2] = q[2]

\* C9: every live ball draws from the generator currently installed in rngRef
C9_SingleGenerator ==
  \A i \in DOMAIN ballsRef : ballsRef[i].rng = rngRef

\* C10: after running went from true to false, and until the user starts or
\* drops again, no ball is appended to the live collection
C10_NoBallAfterStop ==
  [][(quiet /\ quiet') => Len(ballsRef') <= Len(ballsRef)]_vars

\* C11: for any pRight > 0, a ball whose every draw is 0 lands in bin rows, the
\* rightmost bin (under SpecStub)
C11_AllRightLandsLast ==
  (rngRef = ZeroRng /\ pRightOf(bias) > 0) =>
    \A i \in DOMAIN emitted : emitted[i].idx = rows

\* C12: for any pRight in [0, 1], a ball whose every draw is 1 lands in bin 0
\* (under SpecStub)
C12_AllLeftLandsFirst ==
  rngRef = OneRng => \A i \in DOMAIN emitted : emitted[i].idx = 0

\* a ball whose every draw is 1 has landed on the board of 20 rows with pRight = 1
C12_LeftLanding ==
  /\ rngRef = OneRng
  /\ pRightOf(bias) = 100
  /\ rows = 20
  /\ emitted # <<>>

\* the x of the first and of the last peg of the bottom row, row rows - 1
bottomRowWidth == pegRows[rows][rows].x - pegRows[rows][1].x

\* binCenters has rows + 1 entries, spacing apart, symmetric about boardCenterX
BinsEvenAndCentred ==
  /\ Len(binCenters) = rows + 1
  /\ \A k \in 1..rows : binCenters[k + 1] - binCenters[k] = spacingOf(scale)
  /\ \A k \in 1..(rows + 1) :
       binCenters[k] + binCenters[rows + 2 - k] = 2 * boardCenterXOf(scale)

\* C13 as stated: the bin centers are rows + 1 evenly spaced entries symmetric
\* about centerX, and the distance from the first to the last equals the width
\* spanned by the bottom peg row (under SpecGeom)
C13_BinsSpanBottomRow ==
  /\ BinsEvenAndCentred
  /\ binCenters[rows + 1] - binCenters[1] = bottomRowWidth

\* C13 amended: the bin centers are rows + 1 evenly spaced entries symmetric
\* about centerX, and the distance from the first to the last is rows * spacing,
\* one spacing more than the width of the bottom peg row (under SpecGeom)
C13_BinGeometry ==
  /\ BinsEvenAndCentred
  /\ binCenters[rows + 1] - binCenters[1] = rows * spacingOf(scale)
  /\ binCenters[rows + 1] - binCenters[1] = bottomRowWidth + spacingOf(scale)

\* the board of 20 rows at the smallest scale, reached by the scale slider
C13_SmallBoard ==
  /\ rows = 20
  /\ scale = 14
  /\ Len(binCenters) = 21
  /\ binCenters[1] = boardCenterXOf(14) - 10 * spacingOf(14)

\* C14: row r (entry r + 1) has r + 1 pegs, spacing apart, spanning r * spacing
\* symmetric about centerX, each at y = boardTop + r * spacing, which is
\* rowYs[r] in Model B (under SpecGeom)
C14_PegGeometry ==
  /\ Len(pegRows) = rows
  /\ \A r \in 0..(rows - 1) :
       LET row == pegRows[r + 1]
       IN /\ Len(row) = r + 1
          /\ \A i \in 1..r : row[i + 1].x - row[i].x = spacingOf(scale)
          /\ row[r + 1].x - row[1].x = r * spacingOf(scale)
          /\ row[1].x + row[r + 1].x = 2 * boardCenterXOf(scale)
          /\ \A i \in 1..(r + 1) : row[i].y = boardTopOf(scale) + r * spacingOf(scale)
          /\ variant = "B" => \A i \in 1..(r + 1) : row[i].y = rowYs(r)

\* the board of 20 rows at the largest scale, reached by the scale slider
C14_LargeBoard ==
  /\ rows = 20
  /\ scale = 32
  /\ Len(pegRows[20]) = 20
  /\ pegRows[20][20].x - pegRows[20][1].x = 19 * spacingOf(32)

\* the right-deflection probability a live ball decides with, in hundredths
pRightUsed(b) == IF variant = "A" THEN pRightOf(b.bias) ELSE b.pRight

\* C15: the probability every live ball decides with is clamp(0.5 + bias, 0, 1)
\* for the bias of its launch: it lies in [0, 1] for every bias, and is
\* 0.5 + bias for a bias in [-0.25, 0.25] (under SpecStub)
C15_PRightClamped ==
  /\ \A b \in ScenarioBiases :
       /\ 0 <= pRightOf(b) /\ pRightOf(b) <= 100
       /\ (0 - 25 <= b /\ b <= 25) => pRightOf(b) = 50 + b
  /\ \A i \in DOMAIN ballsRef :
       /\ pRightUsed(ballsRef[i]) = clamp(50 + bias, 0, 100)
       /\ 0 <= pRightUsed(ballsRef[i]) /\ pRightUsed(ballsRef[i]) <= 100

\* a ball launched under a bias beyond the slider's range has crossed a row
C15_OutOfRangeBias ==
  \E i \in DOMAIN ballsRef :
    /\ bias = 75
    /\ pRightUsed(ballsRef[i]) = 100
    /\ ballsRef[i].row > 0

\* C16: with frames delivered fairly at advancing timestamps and no reset or
\* rows change, every ball appended to the live collection is eventually done,
\* tallied and removed: the n-th ball appended leads to n completions, and the
\* live balls are exactly those appended and not yet completed (under SpecLive)
C16_EveryBallCompletes ==
  /\ [](Len(ballsRef) + completed = launched /\ totalBalls = completed)
  /\ \A n \in 1..MaxDrops : (launched >= n) ~> (completed >= n /\ totalBalls >= n)

\* on the board of 20 rows every ball dropped has completed and none is live
C16_AllLanded ==
  /\ rows = 20
  /\ launched = MaxDrops
  /\ completed = MaxDrops
  /\ ballsRef = <<>>

\* the live ball i as it would be with done = true
markedDone(i) == [ballsRef[i] EXCEPT !.done = TRUE]

\* C17: no ball of the live collection has done = true, and the iteration of
\* a frame over a ball with done = true leaves the ball as it is (row, col,
\* right count and all), draws nothing from the generators and tallies nothing
C17_NoDoneBallLive ==
  \A i \in DOMAIN ballsRef :
    /\ ~ballsRef[i].done
    /\ variant = "A" =>
         /\ advanceOne(markedDone(i), gens, 0) = [ball |-> markedDone(i), gens |-> gens]
         /\ planNextTarget(markedDone(i), gens, 0).ball.done
    /\ variant = "B" =>
         \A dt \in {FrameCapMs, 0} :
           stepOne(markedDone(i), gens, dt, rows) = [ball |-> markedDone(i), gens |-> gens, out |-> -1]

\* a frame has just completed one ball and left another, not done, live
C17_OneLandedOneLive ==
  /\ emitted # <<>>
  /\ ballsRef # <<>>
  /\ \A i \in DOMAIN ballsRef : ballsRef[i].row > 0

\* s is an initial segment of t
IsPrefix(s, t) == Len(s) <= Len(t) /\ SubSeq(t, 1, Len(s)) = s

\* C18: a drop callback (the Drop button, a setTimeout callback of a batch,
\* the auto-run interval, Start) only appends to the live collection, one
\* ball per ball launched; and a frame loses no ball: every ball live before
\* the frame is live after it or is one of the completions of the frame
C18_AppendsSurviveFrames ==
  [][/\ (launchBall \/ DropBatch \/ IntervalBatch \/ ToggleRunningA
          \/ launchBallB \/ IntervalBall \/ ToggleRunningB)
        => /\ IsPrefix(ballsRef, ballsRef')
           /\ Len(ballsRef') - Len(ballsRef) = launched' - launched
     /\ (tick \/ step)
        => /\ Len(ballsRef') + Len(emitted') = Len(ballsRef)
           /\ launched' = launched]_vars

\* a second ball was appended after the first had crossed a row, and both
\* are live after later frames
C18_AppendedBetweenFrames ==
  /\ Len(ballsRef) = 2
  /\ ballsRef[2].row > 0
  /\ ballsRef[1].row > ballsRef[2].row

\* C19: at most one animation-frame request is pending, and it is the one
\* requested last (the id held in rafRef.current, or in rafId in Model B):
\* the cleanup of the animation effect cancels it before the effect requests
\* another, so no second loop runs beside the first
C19_OneFramePending ==
  /\ Cardinality(frames) <= 1
  /\ frames \subseteq {rafRef.current}

\* Model A after the Rows slider was moved and a later frame completed a
\* ball: the effect has run again for the rows and again for the tally
C19_LoopRestarted ==
  /\ variant = "A"
  /\ moves > 0
  /\ emitted # <<>>
  /\ totalBalls > 0
  /\ frames = {rafRef.current}

\* C20: after Reset pressed while not running, and until the user drops or
\* starts, the live collection is empty and every tally is zero
C20_StaysEmptyAfterReset ==
  cleared => (ballsRef = <<>> /\ \A i \in DOMAIN binTallies : binTallies[i] = 0)

\* the right decisions a live ball has taken
rightsTaken(b) == IF variant = "A" THEN b.nRight ELSE b.rights

\* C21: the deflection probability of a ball is fixed when it is dropped.  A
\* change of the bias control leaves the live balls as they are; a ball
\* appended in Model B carries clamp(0.5 + bias) of the control, one appended
\* in Model A the bias of the render that scheduled its setTimeout callback;
\* and a step that keeps the one live ball leaves its probability as it is
\* and decides the row it crosses by comparing the draw with the ball's own
\* probability
C21_BiasFixedAtDrop ==
  [][/\ bias' # bias => ballsRef' = ballsRef
     /\ (variant = "B" /\ Len(ballsRef') > Len(ballsRef))
          => ballsRef'[Len(ballsRef')].pRight = pRightOf(bias)
     /\ (variant = "A" /\ Len(ballsRef') > Len(ballsRef))
          => \E c \in BagToSet(timers) : ballsRef'[Len(ballsRef')].bias = c.bias
     /\ (Len(ballsRef) = 1 /\ Len(ballsRef') = 1 /\ launched' = launched)
          => /\ pRightUsed(ballsRef'[1]) = pRightUsed(ballsRef[1])
             /\ ballsRef'[1].row # ballsRef[1].row
                  => rightsTaken(ballsRef'[1]) - rightsTaken(ballsRef[1])
                       = IF Below(rngCall(gens, ballsRef[1].rng).value, pRightUsed(ballsRef[1]))
                           THEN 1 ELSE 0]_vars

\* a ball dropped before the bias was changed and a ball dropped after it are
\* live, each with the probability of its own drop, and both have crossed a row
C21_OldAndNewBall ==
  /\ Len(ballsRef) = 2
  /\ pRightUsed(ballsRef[1]) # pRightOf(bias)
  /\ pRightUsed(ballsRef[2]) = pRightOf(bias)
  /\ ballsRef[1].row > 0
  /\ ballsRef[2].row > 0

---------------------------------------------------------------------------
\* SpecTarget: Model A with the Size and Rows sliders moved while balls are
\* in flight.

InitTarget ==
  /\ Init
  /\ variant = "A"

NextTarget ==
  \/ DropBatch
  \/ launchBall
  \/ tick
  \/ SetScale
  \/ SetRowsA

SpecTarget == InitTarget /\ [][NextTarget]_vars

\* C22: in Model A the clamp never changes the target x: for every live
\* ball tx = x0 + col * spacing / 2 with |col| <= rows (x0 = the boardCenterX
\* and spacing = the spacing of its launch), so tx lies within
\* x0 +/- rows * spacing / 2; and once the ball has taken its last decision
\* tx = binCenters[idx] for the bin index idx the tick computes for it
\* (under SpecTarget)
C22_TargetOnLattice ==
  \A i \in DOMAIN ballsRef : variant = "A" =>
    /\ ballsRef[i].tx = ballsRef[i].x0 + ballsRef[i].col * (ballsRef[i].spacing \div 2)
    /\ 0 - ballsRef[i].rows <= ballsRef[i].col
    /\ ballsRef[i].col <= ballsRef[i].rows
    /\ ballsRef[i].row >= ballsRef[i].rows
         => ballsRef[i].tx = binCenters[idxA(ballsRef[i], rows) + 1]

====
